---------------------------- MODULE Spec2Model ----------------------------
(***************************************************************************)
(* OCR viewer: the filter pipeline of EditorContainer (editor_panel.py),   *)
(* the ImageStore / OCRStore models and the OCR worker (worker_manager.py).*)
(*                                                                         *)
(* Images.  A QImage is [fmt, px, ops]: its pixel format, its pixels as    *)
(* <<r, g, b, a>> tuples, and the Transform Library calls that produced it *)
(* (empty for a loaded file).  A numpy image is [ch, px, ops]: 3 channels  *)
(* with <<b, g, r>> pixels, or 1 channel.  The Transform Library is a      *)
(* black box: each call is recorded in ops, never computed.                *)
(***************************************************************************)
EXTENDS Integers, Sequences, FiniteSets

VARIABLES
    image_store,      \* ImageStore: [img, path, edited_img]
    original_cv_img,  \* EditorContainer.original_cv_img (NoneImg = None)
    filters,          \* EditorContainer.filters: the six widgets' state
    last,             \* history: the user event handled last
    raised,           \* history: a recomputation has raised at some time
    oc_edited,        \* history: the edited slot when on_original_image_changed last returned
    edits,            \* history: parameter edits made so far
    ref,              \* history: an earlier recomputation, kept for comparison
    notified,         \* history: the ImageStore signals emitted while the last event was handled
    ocr_store,        \* OCRStore: [text], with the text_changed emissions made so far
    runs,             \* the OCR runs: each Worker's position and what it holds
    events,           \* signals queued from worker threads to the interface thread
    cursor            \* depth of QApplication's override cursor stack

pvars == <<image_store, original_cv_img, filters, last, raised, oc_edited, edits, ref,
           notified>>

ovars == <<ocr_store, runs, events, cursor>>

vars == <<image_store, original_cv_img, filters, last, raised, oc_edited, edits, ref,
          notified, ocr_store, runs, events, cursor>>

----------------------------------------------------------------------------
(* Bounds *)

\* files the user can open: 1..NumFiles are readable images
NumFiles == 2
\* kernel spin boxes are driven over 1..MaxK
MaxK == 2
\* the iteration spin box is driven over 1..MaxIter
MaxIter == 2
\* slider, spin box and radio button edits in one session (check boxes and
\* image loads are not limited)
MaxEdits == 1
\* clicks on "Run OCR" in one session
MaxRuns == 2

----------------------------------------------------------------------------
(* Program constants *)

ThresholdDefault == 127
GaussianKDefault == 3
MedianKDefault == 3
MorphKDefault == 2
MorphIterDefault == 1
DilateId == 1
ErodeId == 2
BinaryMaxValue == 255

\* slider positions the user drags to
ThresholdInputs == {ThresholdDefault, 200}

----------------------------------------------------------------------------
(* Images *)

NullQImage == [fmt |-> "Invalid", px |-> <<>>, ops |-> <<>>]

isNull(q) == q.fmt = "Invalid"

\* None, and the outcome of a call that raised
NoneImg == [ch |-> 0, px |-> <<>>, ops |-> <<>>]
RaisedImg == [ch |-> -1, px |-> <<>>, ops |-> <<>>]

IsNone(img) == img.ch = 0
IsRaised(img) == img.ch = -1

\* QPixmap(file_path).toImage(): odd files are opaque, even files carry an
\* alpha channel with a translucent pixel; file 0 cannot be decoded
FileImage(f) ==
    IF f = 0 THEN NullQImage
    ELSE IF f % 2 = 1
         THEN [fmt |-> "RGB32",
               px |-> << <<(40 * f) % 256, 20, 30, 255>>, <<5, (70 * f) % 256, 9, 255>> >>,
               ops |-> <<>>]
         ELSE [fmt |-> "ARGB32_Premultiplied",
               px |-> << <<(40 * f) % 256, 20, 30, 128>>, <<5, (70 * f) % 256, 9, 255>> >>,
               ops |-> <<>>]

Files == 0..NumFiles

\* qimage_to_cv without its first statement: an empty array for a null image
qimage_to_cvNoNullTest(qimg) ==
    [ch |-> 3,
     px |-> [i \in 1..Len(qimg.px) |->
                <<qimg.px[i][3], qimg.px[i][2], qimg.px[i][1]>>],
     ops |-> qimg.ops]

qimage_to_cv(qimg) ==
    IF isNull(qimg) THEN NoneImg
    ELSE [ch |-> 3,
          px |-> [i \in 1..Len(qimg.px) |->
                     <<qimg.px[i][3], qimg.px[i][2], qimg.px[i][1]>>],
          ops |-> qimg.ops]

cv_to_qimage(img) ==
    IF img.ch = 1
    THEN [fmt |-> "RGBA8888",
          px |-> [i \in 1..Len(img.px) |->
                     <<img.px[i][3], img.px[i][2], img.px[i][1], 255>>],
          ops |-> Append(img.ops, [op |-> "stack", a |-> 0, b |-> 0])]
    ELSE [fmt |-> "RGBA8888",
          px |-> [i \in 1..Len(img.px) |->
                     <<img.px[i][3], img.px[i][2], img.px[i][1], 255>>],
          ops |-> img.ops]

\* numpy copy()
copy(img) == img

----------------------------------------------------------------------------
(* Transform Library (backend.processor) *)

Tag(img, o, x, y) == [img EXCEPT !.ops = Append(@, [op |-> o, a |-> x, b |-> y])]

to_gray(img) == [Tag(img, "gray", 0, 0) EXCEPT !.ch = 1]

to_binary(img, threshold, max_value) == Tag(img, "binary", threshold, max_value)

invert(img) == Tag(img, "invert", 0, 0)

gaussian_blur(img, k_tuple) ==
    IF k_tuple[1] % 2 = 0 \/ k_tuple[2] % 2 = 0 THEN RaisedImg
    ELSE Tag(Tag(img, "gaussian_x", k_tuple[1], 0), "gaussian_y", k_tuple[2], 0)

median_blur(img, ksize) ==
    IF ksize % 2 = 0 THEN RaisedImg
    ELSE Tag(img, "median", ksize, 0)

dilate(img, k_tuple, iter) ==
    Tag(Tag(img, "dilate_k", k_tuple[1], k_tuple[2]), "dilate_n", iter, 0)

erode(img, k_tuple, iter) ==
    Tag(Tag(img, "erode_k", k_tuple[1], k_tuple[2]), "erode_n", iter, 0)

----------------------------------------------------------------------------
(* Filter widgets: get_params and apply *)

GrayscaleGetParams(f) == [enabled |-> f.checked]

GrayscaleApply(f, img) ==
    IF GrayscaleGetParams(f).enabled THEN to_gray(img) ELSE img

BinaryGetParams(f) == [enabled |-> f.checked, threshold |-> f.slider]

\* the threshold call without the conversion to grayscale
BinaryApplyNoGray(f, img) ==
    LET params == BinaryGetParams(f) IN
    IF params.enabled
    THEN to_binary(img, params.threshold, BinaryMaxValue)
    ELSE img

\* apply converting to grayscale whatever the shape of img
BinaryApplyAlwaysGray(f, img) ==
    LET params == BinaryGetParams(f) IN
    IF params.enabled
    THEN to_binary(to_gray(img), params.threshold, BinaryMaxValue)
    ELSE img

BinaryApply(f, img) ==
    LET params == BinaryGetParams(f) IN
    IF params.enabled
    THEN to_binary(IF img.ch = 3 THEN to_gray(img) ELSE img,
                   params.threshold, BinaryMaxValue)
    ELSE img

InvertGetParams(f) == [enabled |-> f.checked]

InvertApply(f, img) ==
    IF InvertGetParams(f).enabled THEN invert(img) ELSE img

GaussianGetParams(f) == [enabled |-> f.checked, k_tuple |-> <<f.k1, f.k2>>]

GaussianApply(f, img) ==
    LET params == GaussianGetParams(f) IN
    IF params.enabled THEN gaussian_blur(img, params.k_tuple) ELSE img

MedianGetParams(f) == [enabled |-> f.checked, ksize |-> f.ksize]

\* apply without the test of params["enabled"]
MedianApplyAlways(f, img) == median_blur(img, MedianGetParams(f).ksize)

MedianApply(f, img) ==
    LET params == MedianGetParams(f) IN
    IF params.enabled THEN median_blur(img, params.ksize) ELSE img

get_checked_radio_btn_id(f) ==
    IF (f.checked_id = DilateId /\ f.dilate_enabled)
       \/ (f.checked_id = ErodeId /\ f.erode_enabled)
    THEN f.checked_id
    ELSE -1

DilationErosionGetParams(f) ==
    [enabled |-> f.dilate_enabled /\ f.erode_enabled,
     checked_btn |-> get_checked_radio_btn_id(f),
     k_tuple |-> <<f.ksize, f.ksize>>,
     iter |-> f.iter]

\* apply reading the check box and the checked button instead of get_params()
DilationErosionApplyByCheckbox(f, img) ==
    IF f.checked /\ f.checked_id = DilateId
    THEN dilate(img, <<f.ksize, f.ksize>>, f.iter)
    ELSE IF f.checked /\ f.checked_id = ErodeId
    THEN erode(img, <<f.ksize, f.ksize>>, f.iter)
    ELSE img

DilationErosionApply(f, img) ==
    LET params == DilationErosionGetParams(f) IN
    IF params.enabled /\ params.checked_btn = DilateId
    THEN dilate(img, params.k_tuple, params.iter)
    ELSE IF params.enabled /\ params.checked_btn = ErodeId
    THEN erode(img, params.k_tuple, params.iter)
    ELSE img

\* the stage configuration: every widget's get_params()
AllParams(F) ==
    [gray |-> GrayscaleGetParams(F.gray),
     bin |-> BinaryGetParams(F.bin),
     inv |-> InvertGetParams(F.inv),
     gau |-> GaussianGetParams(F.gau),
     med |-> MedianGetParams(F.med),
     mor |-> DilationErosionGetParams(F.mor)]

\* for filter_widget in self.filters: processed = filter_widget.apply(processed)
\* (an exception raised by one apply ends the loop); p1..p5 are the values of
\* `processed` after the first five iterations, each bound once
ApplyFilters(F, img) ==
    CHOOSE processed \in
      {IF IsRaised(p5) THEN p5 ELSE DilationErosionApply(F.mor, p5) : p5 \in
      {IF IsRaised(p4) THEN p4 ELSE MedianApply(F.med, p4) : p4 \in
      {IF IsRaised(p3) THEN p3 ELSE GaussianApply(F.gau, p3) : p3 \in
      {IF IsRaised(p2) THEN p2 ELSE InvertApply(F.inv, p2) : p2 \in
      {IF IsRaised(p1) THEN p1 ELSE BinaryApply(F.bin, p1) : p1 \in
      {GrayscaleApply(F.gray, img)}}}}}} : TRUE

----------------------------------------------------------------------------
(* Widgets as constructed *)

InitFilters ==
    [gray |-> [checked |-> FALSE],
     bin |-> [checked |-> FALSE, slider |-> ThresholdDefault, slider_enabled |-> FALSE],
     inv |-> [checked |-> FALSE],
     gau |-> [checked |-> FALSE, k1 |-> GaussianKDefault, k2 |-> GaussianKDefault,
              spin_enabled |-> FALSE],
     med |-> [checked |-> FALSE, ksize |-> MedianKDefault, spin_enabled |-> FALSE],
     mor |-> [checked |-> FALSE, dilate_enabled |-> FALSE, erode_enabled |-> FALSE,
              checked_id |-> DilateId,
              ksize |-> MorphKDefault, ksize_enabled |-> FALSE,
              iter |-> MorphIterDefault, iter_enabled |-> FALSE]]

InitStore == [img |-> NullQImage, path |-> 0, edited_img |-> NullQImage]

\* no recomputation recorded
NoRec == [I |-> NoneImg, C |-> AllParams(InitFilters), F |-> InitFilters,
          out |-> NullQImage]

----------------------------------------------------------------------------
(* The interface thread's state while one event is handled:                *)
(* w = [store, orig, filters, raised, oc, failed, emitted, params_changed]; *)
(* failed says that a recomputation raised while this event was handled,   *)
(* emitted lists the ImageStore notifications sent while it was handled,   *)
(* params_changed counts the paramsChanged signals of the filter widgets   *)

\* ImageStore.get_original_img / get_path / get_edited_img
get_original_img(store) == store.img

get_path(store) == store.path

get_edited_img(store) == store.edited_img

\* set_edited_img keeping a value already stored and notifying with the argument
set_edited_imgKeepOlder(w, img) ==
    [w EXCEPT !.store.edited_img = IF isNull(@) THEN img ELSE @,
              !.emitted = Append(@, [signal |-> "editedImageChanged",
                                     img |-> img, path |-> 0])]

\* ImageStore.set_edited_img; the subscriber of editedImageChanged
\* (EditedImageViewer.show_image) only displays the image; the signal carries
\* no path (0 here)
set_edited_img(w, img) ==
    [w EXCEPT !.store.edited_img = img,
              !.emitted = Append(@, [signal |-> "editedImageChanged",
                                     img |-> img, path |-> 0])]

\* set_original_img assigning the edited slot as well
store_original_imgAndEdited(w, img, path) ==
    [w EXCEPT !.store.img = img, !.store.path = path, !.store.edited_img = img,
              !.emitted = Append(@, [signal |-> "imageChanged",
                                     img |-> img, path |-> path])]

\* ImageStore.set_original_img up to the return of imageChanged.emit, without
\* the slots connected to imageChanged
store_original_img(w, img, path) ==
    [w EXCEPT !.store.img = img, !.store.path = path,
              !.emitted = Append(@, [signal |-> "imageChanged",
                                     img |-> img, path |-> path])]

\* on_params_changed publishing the unprocessed copy when a stage raises
on_params_changedPublishOnRaise(w) ==
    IF IsNone(w.orig) THEN w
    ELSE LET processed == ApplyFilters(w.filters, copy(w.orig)) IN
         IF IsRaised(processed)
         THEN set_edited_img([w EXCEPT !.raised = TRUE, !.failed = TRUE],
                             cv_to_qimage(copy(w.orig)))
         ELSE set_edited_img(w, cv_to_qimage(processed))

\* on_params_changed without its first statement
on_params_changedNoGuard(w) ==
    LET processed == ApplyFilters(w.filters, copy(w.orig)) IN
    IF IsRaised(processed) THEN [w EXCEPT !.raised = TRUE, !.failed = TRUE]
    ELSE set_edited_img(w, cv_to_qimage(processed))

\* a slot that raises is reported by Qt and the emitting call returns
on_params_changed(w) ==
    IF IsNone(w.orig) THEN w
    ELSE LET processed == ApplyFilters(w.filters, copy(w.orig)) IN
         IF IsRaised(processed) THEN [w EXCEPT !.raised = TRUE, !.failed = TRUE]
         ELSE set_edited_img(w, cv_to_qimage(processed))

\* paramsChanged.emit() of a filter widget: the signal is connected to
\* EditorContainer.on_params_changed
paramsChanged(w) == on_params_changed([w EXCEPT !.params_changed = @ + 1])

\* checkbox.setChecked(v) with the toggled slot; nothing is emitted when
\* the state does not change
GrayscaleSetChecked(w, v) ==
    IF w.filters.gray.checked = v THEN w
    ELSE paramsChanged([w EXCEPT !.filters.gray.checked = v])

BinarySetChecked(w, v) ==
    IF w.filters.bin.checked = v THEN w
    ELSE paramsChanged([w EXCEPT !.filters.bin.checked = v,
                                     !.filters.bin.slider_enabled = v])

\* slider.setValue(v) with _on_slider_changed
BinarySetSlider(w, v) ==
    IF w.filters.bin.slider = v THEN w
    ELSE LET w1 == [w EXCEPT !.filters.bin.slider = v] IN
         IF w1.filters.bin.checked THEN paramsChanged(w1) ELSE w1

InvertSetChecked(w, v) ==
    IF w.filters.inv.checked = v THEN w
    ELSE paramsChanged([w EXCEPT !.filters.inv.checked = v])

GaussianSetChecked(w, v) ==
    IF w.filters.gau.checked = v THEN w
    ELSE paramsChanged([w EXCEPT !.filters.gau.checked = v,
                                     !.filters.gau.spin_enabled = v])

\* ksize_spinbox_1.setValue(v) with _on_ksize_changed
GaussianSetK1(w, v) ==
    IF w.filters.gau.k1 = v THEN w
    ELSE LET w1 == [w EXCEPT !.filters.gau.k1 = v] IN
         IF w1.filters.gau.checked THEN paramsChanged(w1) ELSE w1

GaussianSetK2(w, v) ==
    IF w.filters.gau.k2 = v THEN w
    ELSE LET w1 == [w EXCEPT !.filters.gau.k2 = v] IN
         IF w1.filters.gau.checked THEN paramsChanged(w1) ELSE w1

MedianSetChecked(w, v) ==
    IF w.filters.med.checked = v THEN w
    ELSE paramsChanged([w EXCEPT !.filters.med.checked = v,
                                     !.filters.med.spin_enabled = v])

MedianSetKsize(w, v) ==
    IF w.filters.med.ksize = v THEN w
    ELSE paramsChanged([w EXCEPT !.filters.med.ksize = v])

MorphSetChecked(w, v) ==
    IF w.filters.mor.checked = v THEN w
    ELSE paramsChanged([w EXCEPT !.filters.mor.checked = v,
                                     !.filters.mor.dilate_enabled = v,
                                     !.filters.mor.erode_enabled = v,
                                     !.filters.mor.ksize_enabled = v,
                                     !.filters.mor.iter_enabled = v])

\* a click on a radio button: btn_group.buttonClicked
MorphClickRadio(w, id) ==
    paramsChanged([w EXCEPT !.filters.mor.checked_id = id])

MorphSetKsize(w, v) ==
    IF w.filters.mor.ksize = v THEN w
    ELSE paramsChanged([w EXCEPT !.filters.mor.ksize = v])

MorphSetIter(w, v) ==
    IF w.filters.mor.iter = v THEN w
    ELSE paramsChanged([w EXCEPT !.filters.mor.iter = v])

----------------------------------------------------------------------------
(* reset() of each widget *)

GrayscaleReset(w) == GrayscaleSetChecked(w, FALSE)

BinaryReset(w) == BinarySetSlider(BinarySetChecked(w, FALSE), ThresholdDefault)

InvertReset(w) == InvertSetChecked(w, FALSE)

GaussianReset(w) ==
    GaussianSetK2(GaussianSetK1(GaussianSetChecked(w, FALSE), GaussianKDefault),
                  GaussianKDefault)

MedianReset(w) == MedianSetKsize(MedianSetChecked(w, FALSE), MedianKDefault)

\* reset() restoring the spin box values only
DilationErosionResetValuesOnly(w) ==
    MorphSetIter(MorphSetKsize(w, MorphKDefault), MorphIterDefault)

DilationErosionReset(w) ==
    LET w1 == [w EXCEPT !.filters.mor.dilate_enabled = FALSE,
                        !.filters.mor.erode_enabled = FALSE,
                        !.filters.mor.ksize_enabled = FALSE]
        w2 == MorphSetKsize(w1, MorphKDefault)
        w3 == [w2 EXCEPT !.filters.mor.iter_enabled = FALSE]
    IN  MorphSetIter(w3, MorphIterDefault)

reset_all_filters(w) ==
    DilationErosionReset(MedianReset(GaussianReset(InvertReset(
        BinaryReset(GrayscaleReset(w))))))

----------------------------------------------------------------------------
(* EditorContainer and ImageStore handlers *)

\* on_original_image_changed without its last statement
on_original_image_changedNoPublish(w, qimg, path) ==
    LET w2 == reset_all_filters([w EXCEPT !.orig = qimage_to_cv(qimg)])
    IN  [w2 EXCEPT !.oc = w2.store.edited_img]

on_original_image_changed(w, qimg, path) ==
    LET w1 == [w EXCEPT !.orig = qimage_to_cv(qimg)]
        w2 == reset_all_filters(w1)
        w3 == set_edited_img(w2, qimg)
    IN  [w3 EXCEPT !.oc = w3.store.edited_img]

\* imageChanged is connected to OriginalImageViewer.on_image_changed (display
\* only) and to EditorContainer.on_original_image_changed
set_original_img(w, img, path) ==
    on_original_image_changed(store_original_img(w, img, path), img, path)

\* _load_image without its test of pixmap.isNull()
load_imageNoCheck(w, file_path) ==
    LET qimage == FileImage(file_path) IN
    set_edited_img(set_original_img(w, qimage, file_path), qimage)

\* OriginalImageViewer._load_image
load_image(w, file_path) ==
    LET qimage == FileImage(file_path) IN
    IF isNull(qimage) THEN w
    ELSE set_edited_img(set_original_img(w, qimage, file_path), qimage)

\* OriginalImageViewer.eventFilter on a Drop of a local file: supported says
\* that the file name ends with one of the six image suffixes
eventFilterDrop(w, file_path, supported) ==
    IF supported THEN load_image(w, file_path) ELSE w

----------------------------------------------------------------------------
(* OCR engine, OCR store and Worker *)

\* orc_tesseract(img, lang="eng"): the data recognised in img, a dict
\* (output_type=Output.DICT)
OcrText(img) == [type |-> "dict", of |-> img]

\* OCRStore._text = None
NoText == [type |-> "NoneType", of |-> NoneImg]

\* a default-constructed QString
NullQString == [type |-> "str", of |-> NoneImg]

\* pytesseract.image_to_data raises: it rejects None ("Unsupported image
\* object"), or tesseract itself fails
EngineError(cv_img) == IF IsNone(cv_img) THEN "TypeError" ELSE "TesseractError"

\* text_changed = Signal(str); text_changed.emit(text): what the connected
\* display receives.  A value that is not a str cannot be converted to a
\* QString: the call raises TypeError (nothing is emitted) or a null QString
\* is emitted in its place.
text_changed_emit(text) ==
    IF text.type = "str" THEN {<<text>>} ELSE {<<>>, <<NullQString>>}

\* OCRStore.set_text(text): the possible stores afterwards
\* set_text keeping a text already stored
set_textKeepFirst(store, text) ==
    {[text |-> IF store.text = NoText THEN text ELSE store.text,
      text_changed |-> store.text_changed \o emitted] :
        emitted \in text_changed_emit(text)}

set_text(store, text) ==
    {[text |-> text, text_changed |-> store.text_changed \o emitted] :
        emitted \in text_changed_emit(text)}

\* a Worker that has not been created yet
IdleRun ==
    [pc |-> "idle",            \* idle, queued, starting, started, returned, raised,
                               \* finally, restoring, exited
     cur |-> 0,                \* the stack depth the pool thread's cursor call has read
     outcome |-> "none",       \* how func ended: none, returned, raised
     trig |-> NullQImage,      \* history: the edited slot when Run OCR was clicked
     text |-> NoText,          \* run_ocr: the value returned
     exc |-> "none",           \* run_ocr: the exception raised
     shown |-> "none",         \* _on_ocr_error: the message of the dialog
     att_result |-> 0,         \* result.emit calls made
     att_error |-> 0,          \* error.emit calls made
     n_result |-> 0,           \* result notifications queued
     n_error |-> 0,            \* error notifications queued
     emit_raised |-> FALSE,    \* an emit call raised
     n_completed |-> 0,        \* completed notifications queued
     got_result |-> 0,         \* _on_ocr_successful calls for this run
     got_error |-> 0,          \* _on_ocr_error calls for this run
     got_completed |-> 0,      \* _on_ocr_completed calls for this run
     late |-> FALSE]           \* a result or error slot ran after the completed slot

\* the except clause missing: an exception of func is not reported
EmitKindsNoExcept(outcome) ==
    IF outcome = "raised" THEN <<>> ELSE <<"result">>

\* the else clause missing: result.emit follows the try statement's handlers
EmitKindsNoElse(outcome) ==
    IF outcome = "raised" THEN <<"error", "result">> ELSE <<"result">>

\* Worker.run, lines 26-33: the emit statements executed for an outcome of func
EmitKinds(outcome) ==
    IF outcome = "raised" THEN <<"error">> ELSE <<"result">>

\* the finally clause missing: an emit call that raises ends Worker.run
AfterEmitNoFinally(emit_raised) == IF emit_raised THEN "exited" ELSE "finally"

\* Worker.run, lines 34-36: where control goes after the try statement; the
\* finally clause runs whether or not an emit call raised
AfterEmit(emit_raised) == "finally"

\* QApplication.restoreOverrideCursor() does nothing on an empty stack
restoreOverrideCursor(c) == IF c > 0 THEN c - 1 ELSE 0

\* the stack depth after a setOverrideCursor or restoreOverrideCursor call
CursorAfter(call, depth) ==
    IF call = "set" THEN depth + 1 ELSE restoreOverrideCursor(depth)

\* Worker.run calls QApplication.setOverrideCursor / restoreOverrideCursor on a
\* pool thread. The stack belongs to the interface thread and has no lock: a
\* call that read depth `seen` and writes when the depth is `now`, another
\* thread having changed the stack in between, overwrites that change, is
\* overwritten by it, or takes effect after it
PoolCursorCall(call, seen, now) ==
    IF seen = now THEN {CursorAfter(call, now)}
    ELSE {CursorAfter(call, seen), now, CursorAfter(call, now)}

----------------------------------------------------------------------------
(* Events of the interface thread *)

World ==
    [store |-> image_store, orig |-> original_cv_img, filters |-> filters,
     raised |-> raised, oc |-> oc_edited, failed |-> FALSE, emitted |-> <<>>,
     params_changed |-> 0]

\* the names of the signals of a list of notifications
SignalNames(emitted) == [i \in 1..Len(emitted) |-> emitted[i].signal]

Commit(w, event) ==
    /\ image_store' = w.store
    /\ original_cv_img' = w.orig
    /\ filters' = w.filters
    /\ raised' = w.raised
    /\ oc_edited' = w.oc
    /\ last' = IF event = "change" /\ w.failed THEN "change_raised" ELSE event
    /\ notified' = IF w = World THEN notified ELSE SignalNames(w.emitted)
    /\ UNCHANGED <<ref, ocr_store, runs, events, cursor>>

\* a slider, spin box or radio button edit
Edit(w) ==
    /\ edits < MaxEdits
    /\ edits' = edits + 1
    /\ Commit(w, "change")

\* a check box click
Toggle(w) ==
    /\ Commit(w, "change")
    /\ UNCHANGED edits

Init ==
    /\ image_store = InitStore
    /\ original_cv_img = NoneImg
    /\ filters = InitFilters
    /\ last = "init"
    /\ raised = FALSE
    /\ oc_edited = NullQImage
    /\ edits = 0
    /\ ref = NoRec
    /\ notified = <<>>
    /\ ocr_store = [text |-> NoText, text_changed |-> <<>>]
    /\ runs = [r \in 1..MaxRuns |-> IdleRun]
    /\ events = <<>>
    /\ cursor = 0

\* "Choose image" (on_choose_image calling _load_image(file_path)), or a Drop on
\* the viewer (eventFilter)
LoadImage ==
    \E f \in Files, way \in {"choose", "drop", "drop_other_suffix"} :
        /\ Commit(IF way = "choose" THEN load_image(World, f)
                  ELSE eventFilterDrop(World, f, way = "drop"),
                  IF isNull(FileImage(f)) \/ way = "drop_other_suffix"
                  THEN last ELSE "load")
        /\ UNCHANGED edits

ToggleGrayscale ==
    Toggle(GrayscaleSetChecked(World, ~filters.gray.checked))

ToggleBinary ==
    Toggle(BinarySetChecked(World, ~filters.bin.checked))

SlideThreshold ==
    \E v \in ThresholdInputs :
        /\ filters.bin.slider_enabled
        /\ v # filters.bin.slider
        /\ Edit(BinarySetSlider(World, v))

ToggleInvert ==
    Toggle(InvertSetChecked(World, ~filters.inv.checked))

ToggleGaussian ==
    Toggle(GaussianSetChecked(World, ~filters.gau.checked))

SpinGaussian1 ==
    \E v \in 1..MaxK :
        /\ filters.gau.spin_enabled
        /\ v # filters.gau.k1
        /\ Edit(GaussianSetK1(World, v))

SpinGaussian2 ==
    \E v \in 1..MaxK :
        /\ filters.gau.spin_enabled
        /\ v # filters.gau.k2
        /\ Edit(GaussianSetK2(World, v))

ToggleMedian ==
    Toggle(MedianSetChecked(World, ~filters.med.checked))

SpinMedian ==
    \E v \in 1..MaxK :
        /\ filters.med.spin_enabled
        /\ v # filters.med.ksize
        /\ Edit(MedianSetKsize(World, v))

ToggleMorph ==
    Toggle(MorphSetChecked(World, ~filters.mor.checked))

ClickRadio ==
    \E id \in {DilateId, ErodeId} :
        /\ IF id = DilateId THEN filters.mor.dilate_enabled
                            ELSE filters.mor.erode_enabled
        /\ Edit(MorphClickRadio(World, id))

SpinMorphKsize ==
    \E v \in 1..MaxK :
        /\ filters.mor.ksize_enabled
        /\ v # filters.mor.ksize
        /\ Edit(MorphSetKsize(World, v))

SpinMorphIter ==
    \E v \in 1..MaxIter :
        /\ filters.mor.iter_enabled
        /\ v # filters.mor.iter
        /\ Edit(MorphSetIter(World, v))

Next ==
    \/ LoadImage
    \/ ToggleGrayscale
    \/ ToggleBinary
    \/ SlideThreshold
    \/ ToggleInvert
    \/ ToggleGaussian
    \/ SpinGaussian1
    \/ SpinGaussian2
    \/ ToggleMedian
    \/ SpinMedian
    \/ ToggleMorph
    \/ ClickRadio
    \/ SpinMorphKsize
    \/ SpinMorphIter

Spec == Init /\ [][Next]_vars

----------------------------------------------------------------------------
(* OCR runs *)

UIUnchanged ==
    UNCHANGED <<image_store, original_cv_img, filters, last, raised, oc_edited,
                edits, ref, notified>>

\* _ocr_worker returning at once while a run is in flight
OcrTriggerExclusive ==
    \E r \in 1..MaxRuns :
        /\ runs[r].pc = "idle"
        /\ \A q \in 1..MaxRuns : runs[q].pc = "idle" \/ runs[q].got_completed > 0
        /\ \A q \in 1..(r - 1) : runs[q].pc # "idle"
        /\ cursor' = cursor + 1
        /\ runs' = [runs EXCEPT ![r].pc = "queued",
                                ![r].trig = image_store.edited_img]
        /\ UNCHANGED <<ocr_store, events>>
        /\ UIUnchanged

\* EditorContainer._ocr_worker: the click on "Run OCR" (the model
\* numbers the runs in the order of the clicks and has MaxRuns of them)
OcrTrigger ==
    \E r \in 1..MaxRuns :
        /\ runs[r].pc = "idle"
        /\ \A q \in 1..(r - 1) : runs[q].pc # "idle"
        /\ cursor' = cursor + 1
        /\ runs' = [runs EXCEPT ![r].pc = "queued",
                                ![r].trig = image_store.edited_img]
        /\ UNCHANGED <<ocr_store, events>>
        /\ UIUnchanged

\* Worker.run line 24, on a pool thread; a pool with fewer threads than
\* queued workers starts them later, which is one of the orders allowed here
WorkerStart ==
    \E r \in 1..MaxRuns :
        /\ runs[r].pc = "queued"
        /\ runs' = [runs EXCEPT ![r].pc = "starting", ![r].cur = cursor]
        /\ UNCHANGED <<ocr_store, events, cursor>>
        /\ UIUnchanged

\* Worker.run line 24: setOverrideCursor takes effect
WorkerSetCursor ==
    \E r \in 1..MaxRuns :
        /\ runs[r].pc = "starting"
        /\ cursor' \in PoolCursorCall("set", runs[r].cur, cursor)
        /\ runs' = [runs EXCEPT ![r].pc = "started", ![r].cur = 0]
        /\ UNCHANGED <<ocr_store, events>>
        /\ UIUnchanged

\* run_ocr reading an image whose first pixel comes from the edited image now
\* in the store and whose second pixel comes from the one at the click
RunOcrReturnTornRead ==
    \E r \in 1..MaxRuns :
        LET new == qimage_to_cv(image_store.edited_img)
            old == qimage_to_cv(runs[r].trig)
            cv_img == IF IsNone(old) THEN new
                      ELSE [new EXCEPT !.px = <<new.px[1], old.px[2]>>]
        IN
        /\ runs[r].pc = "started"
        /\ ~IsNone(new)
        /\ runs' = [runs EXCEPT ![r].pc = "returned",
                                ![r].outcome = "returned",
                                ![r].text = OcrText(cv_img)]
        /\ UNCHANGED <<ocr_store, events, cursor>>
        /\ UIUnchanged

\* run_ocr storing the text itself, on the pool thread
RunOcrReturnStoresText ==
    \E r \in 1..MaxRuns :
        LET cv_img == qimage_to_cv(image_store.edited_img) IN
        /\ runs[r].pc = "started"
        /\ ~IsNone(cv_img)
        /\ runs' = [runs EXCEPT ![r].pc = "returned",
                                ![r].outcome = "returned",
                                ![r].text = OcrText(cv_img)]
        /\ ocr_store' \in set_text(ocr_store, OcrText(cv_img))
        /\ UNCHANGED <<events, cursor>>
        /\ UIUnchanged

\* run_ocr returns: the edited slot is read here, on the pool thread
RunOcrReturn ==
    \E r \in 1..MaxRuns :
        LET cv_img == qimage_to_cv(image_store.edited_img) IN
        /\ runs[r].pc = "started"
        /\ ~IsNone(cv_img)
        /\ runs' = [runs EXCEPT ![r].pc = "returned",
                                ![r].outcome = "returned",
                                ![r].text = OcrText(cv_img)]
        /\ UNCHANGED <<ocr_store, events, cursor>>
        /\ UIUnchanged

\* run_ocr raises: the engine fails, or it is handed None
RunOcrRaise ==
    \E r \in 1..MaxRuns :
        /\ runs[r].pc = "started"
        /\ runs' = [runs EXCEPT ![r].pc = "raised", ![r].outcome = "raised",
                                ![r].exc = EngineError(qimage_to_cv(image_store.edited_img))]
        /\ UNCHANGED <<ocr_store, events, cursor>>
        /\ UIUnchanged

\* the run record and the queue after the emit statements ks, the first
\* `good` of which return; a call that raises ends the sequence
RECURSIVE DoEmits(_, _, _, _, _)
DoEmits(run, q, r, ks, good) ==
    IF ks = <<>> THEN [run |-> run, q |-> q]
    ELSE LET k == Head(ks)
             run1 == IF k = "result"
                     THEN [run EXCEPT !.att_result = @ + 1]
                     ELSE [run EXCEPT !.att_error = @ + 1]
         IN  IF good = 0
             THEN [run |-> [run1 EXCEPT !.emit_raised = TRUE], q |-> q]
             ELSE DoEmits(IF k = "result"
                          THEN [run1 EXCEPT !.n_result = @ + 1]
                          ELSE [run1 EXCEPT !.n_error = @ + 1],
                          Append(q, [kind |-> k, run |-> r, text |-> run.text,
                                     error |-> run.exc]),
                          r, Tail(ks), good - 1)

\* Worker.run lines 28-33: error.emit or result.emit, which may itself raise
WorkerEmit ==
    \E r \in 1..MaxRuns, emit_ok \in BOOLEAN :
        /\ runs[r].pc \in {"returned", "raised"}
        /\ LET ks == EmitKinds(runs[r].outcome)
               d == DoEmits(runs[r], events, r, ks, IF emit_ok THEN Len(ks) ELSE 0)
           IN  /\ runs' = [runs EXCEPT ![r] = [d.run EXCEPT !.pc = AfterEmit(~emit_ok)]]
               /\ events' = d.q
        /\ UNCHANGED <<ocr_store, cursor>>
        /\ UIUnchanged

\* Worker.run lines 34-35: the finally clause begins restoreOverrideCursor
WorkerFinally ==
    \E r \in 1..MaxRuns :
        /\ runs[r].pc = "finally"
        /\ runs' = [runs EXCEPT ![r].pc = "restoring", ![r].cur = cursor]
        /\ UNCHANGED <<ocr_store, events, cursor>>
        /\ UIUnchanged

\* Worker.run lines 35-36: restoreOverrideCursor takes effect, completed.emit()
WorkerCompleted ==
    \E r \in 1..MaxRuns :
        /\ runs[r].pc = "restoring"
        /\ cursor' \in PoolCursorCall("restore", runs[r].cur, cursor)
        /\ events' = Append(events, [kind |-> "completed", run |-> r, text |-> NoText,
                                     error |-> "none"])
        /\ runs' = [runs EXCEPT ![r].pc = "exited", ![r].n_completed = @ + 1,
                                ![r].cur = 0]
        /\ UNCHANGED ocr_store
        /\ UIUnchanged

\* the interface thread runs the slot of the oldest queued signal:
\* _on_ocr_successful, _on_ocr_error or _on_ocr_completed
Deliver ==
    /\ events # <<>>
    /\ LET e == Head(events)
           r == e.run
       IN  /\ events' = Tail(events)
           /\ ocr_store' \in IF e.kind = "result" THEN set_text(ocr_store, e.text)
                             ELSE {ocr_store}
           /\ cursor' = IF e.kind = "completed" THEN restoreOverrideCursor(cursor)
                        ELSE cursor
           /\ runs' = [runs EXCEPT ![r] =
                         IF e.kind = "result"
                         THEN [@ EXCEPT !.got_result = @ + 1,
                                        !.late = runs[r].late \/ runs[r].got_completed > 0]
                         ELSE IF e.kind = "error"
                         THEN [@ EXCEPT !.got_error = @ + 1,
                                        !.shown = e.error,
                                        !.late = runs[r].late \/ runs[r].got_completed > 0]
                         ELSE [@ EXCEPT !.got_completed = @ + 1]]
    /\ UIUnchanged

NextOCR ==
    \/ LoadImage
    \/ OcrTrigger
    \/ WorkerStart
    \/ WorkerSetCursor
    \/ RunOcrReturn
    \/ RunOcrRaise
    \/ WorkerEmit
    \/ WorkerFinally
    \/ WorkerCompleted
    \/ Deliver

SpecOCR == Init /\ [][NextOCR]_vars

\* the first load of a session
FirstLoad == isNull(image_store.img) /\ LoadImage

\* the steps of OCR runs, with at most one image loaded
NextRuns ==
    \/ FirstLoad
    \/ OcrTrigger
    \/ WorkerStart
    \/ WorkerSetCursor
    \/ RunOcrReturn
    \/ RunOcrRaise
    \/ WorkerEmit
    \/ WorkerFinally
    \/ WorkerCompleted
    \/ Deliver

\* OCR runs with fair scheduling: the pool runs every Worker handed to it and
\* every step of Worker.run, run_ocr returns or raises, and the event loop of
\* the interface thread runs the slot of every queued notification; nothing
\* obliges the user to load or to click
SpecOCRFair ==
    /\ Init /\ [][NextRuns]_vars
    /\ WF_vars(WorkerStart)
    /\ WF_vars(WorkerSetCursor)
    /\ WF_vars(RunOcrReturn \/ RunOcrRaise)
    /\ WF_vars(WorkerEmit)
    /\ WF_vars(WorkerFinally)
    /\ WF_vars(WorkerCompleted)
    /\ WF_vars(Deliver)

----------------------------------------------------------------------------
(* Recording one recomputation for later comparison.  After a "change"     *)
(* event that did not raise, the edited slot holds what on_params_changed  *)
(* published for the current original and widget state.                    *)

Latch ==
    /\ last = "change"
    /\ ~IsNone(original_cv_img)
    /\ IsNone(ref.I)
    /\ ref' = [I |-> original_cv_img, C |-> AllParams(filters), F |-> filters,
               out |-> image_store.edited_img]
    /\ UNCHANGED <<image_store, original_cv_img, filters, last, raised,
                   oc_edited, edits, notified>>
    /\ UNCHANGED ovars

NextDet ==
    \/ LoadImage
    \/ ToggleGrayscale
    \/ ToggleMedian
    \/ SpinMedian
    \/ ToggleMorph
    \/ ClickRadio
    \/ Latch

SpecDet == Init /\ [][NextDet]_vars

----------------------------------------------------------------------------
(* Properties of the pipeline *)

\* same size and same pixel content, whatever the storage format
SameImage(a, b) == a.px = b.px /\ a.ops = b.ops

AllDisabled(F) ==
    LET C == AllParams(F) IN
    /\ ~C.gray.enabled /\ ~C.bin.enabled /\ ~C.inv.enabled
    /\ ~C.gau.enabled /\ ~C.med.enabled /\ ~C.mor.enabled

OnlyBinaryEnabled(F) ==
    LET C == AllParams(F) IN
    /\ C.bin.enabled
    /\ ~C.gray.enabled /\ ~C.inv.enabled
    /\ ~C.gau.enabled /\ ~C.med.enabled /\ ~C.mor.enabled

\* C1: as long as no transform has raised, after every handled event the
\* edited image of the store is the fold of a copy of the original through the
\* six stages under their current configuration, and so depends on nothing else.
C1_EditedIsFoldOfOriginal ==
    (~raised /\ ~IsNone(original_cv_img)) =>
        SameImage(image_store.edited_img,
                  cv_to_qimage(ApplyFilters(filters, copy(original_cv_img))))

C3_IdentityOnDisabled ==
    (last = "change" /\ ~IsNone(original_cv_img) /\ AllDisabled(filters)) =>
        SameImage(image_store.edited_img, image_store.img)

\* C4: with only binarize enabled at threshold t the published image is
\* to_binary(to_gray(original), t, 255); whenever binarize is enabled the image
\* it hands downstream is single-channel and was converted to grayscale
\* right before the threshold call.
C4_BinaryConvertsToGray ==
    /\ (last = "change" /\ ~IsNone(original_cv_img) /\ OnlyBinaryEnabled(filters)) =>
          image_store.edited_img =
              cv_to_qimage(to_binary(to_gray(copy(original_cv_img)),
                                     filters.bin.slider, BinaryMaxValue))
    /\ (~IsNone(original_cv_img) /\ BinaryGetParams(filters.bin).enabled) =>
          LET out == BinaryApply(filters.bin,
                                 GrayscaleApply(filters.gray, copy(original_cv_img)))
              n == Len(out.ops)
          IN  /\ out.ch = 1
              /\ out.ops[n].op = "binary"
              /\ out.ops[n - 1].op = "gray"
              /\ \A i \in 1..(n - 2) : out.ops[i].op # "gray"

C4_Witness ==
    /\ last = "change"
    /\ ~IsNone(original_cv_img)
    /\ OnlyBinaryEnabled(filters)
    /\ filters.bin.slider = 200

\* C5: when on_original_image_changed has returned, every one of the six
\* stages is disabled and the pipeline is the identity.
C5_AllDisabledAfterLoad ==
    (last = "load") =>
        /\ AllDisabled(filters)
        /\ ApplyFilters(filters, copy(original_cv_img)) = original_cv_img

C5_Witness ==
    /\ last = "load"
    /\ filters.mor.checked
    /\ edits = 1

\* C6: after a new original is loaded every kind-specific parameter has its
\* construction-time default: threshold 127, gaussian kernel (3,3), median
\* kernel 3, morphology operation dilate with the initial kernel size and 1
\* iteration.
C6_DefaultsAfterLoad ==
    (last = "load") =>
        /\ filters.bin.slider = InitFilters.bin.slider
        /\ filters.gau.k1 = InitFilters.gau.k1
        /\ filters.gau.k2 = InitFilters.gau.k2
        /\ filters.med.ksize = InitFilters.med.ksize
        /\ filters.mor.checked_id = InitFilters.mor.checked_id
        /\ filters.mor.ksize = InitFilters.mor.ksize
        /\ filters.mor.iter = InitFilters.mor.iter

\* C7: when on_original_image_changed(image) has returned, the original slot
\* holds image and the edited slot holds image unchanged.
C7_LoadPublishesOriginal ==
    (last = "load") =>
        /\ image_store.img = FileImage(image_store.path)
        /\ oc_edited = image_store.img
        /\ image_store.edited_img = image_store.img

C7_Witness ==
    /\ last = "load"
    /\ filters.mor.checked
    /\ image_store.path = 2

----------------------------------------------------------------------------
(* Properties of OCR runs *)

Runs == 1..MaxRuns

\* the position of a run in Idle -> Running -> {Succeeded, Failed} -> Idle
Phase(run) ==
    CASE run.pc = "idle" -> "Idle"
      [] run.pc \in {"queued", "starting", "started"} -> "Running"
      [] run.pc \in {"returned", "raised", "finally", "restoring"} ->
            IF run.outcome = "returned" THEN "Succeeded" ELSE "Failed"
      [] OTHER -> "Idle"

PhaseSteps ==
    {<<"Idle", "Running">>, <<"Running", "Succeeded">>, <<"Running", "Failed">>,
     <<"Succeeded", "Idle">>, <<"Failed", "Idle">>}

\* the emit statements of a run have been executed
Emitted(run) == run.pc \in {"finally", "restoring", "exited"}

\* C8: the text an OCR run returns is the engine's output for the edited image
\* that was in the store when Run OCR was clicked, whatever was published or
\* loaded between the click and the end of the run.
C8_SnapshotAtTrigger ==
    \A r \in Runs :
        runs[r].outcome = "returned" =>
            runs[r].text = OcrText(qimage_to_cv(runs[r].trig))

\* C9: every run, returning or raising, emits completed exactly once and after
\* its result or error notification, also when emitting result or error raised:
\* never before the emit statements, once when Worker.run has ended, and the
\* completed slot of a run never runs before its result or error slot.
C9_CompletedExactlyOnce ==
    \A r \in Runs :
        /\ runs[r].n_completed <= 1
        /\ runs[r].got_completed <= runs[r].n_completed
        /\ ~Emitted(runs[r]) => runs[r].n_completed = 0
        /\ runs[r].pc = "exited" => runs[r].n_completed = 1
        /\ ~runs[r].late
        /\ \A i, j \in 1..Len(events) :
              (i < j /\ events[i].run = r /\ events[j].run = r)
                  => events[i].kind # "completed"

C9_Witness ==
    \E r, q \in Runs :
        /\ runs[r].pc = "exited" /\ runs[r].emit_raised
        /\ runs[r].outcome = "returned"
        /\ runs[r].got_completed = 1
        /\ runs[q].pc = "exited" /\ ~runs[q].emit_raised
        /\ runs[q].outcome = "raised"
        /\ runs[q].got_error = 1 /\ runs[q].got_completed = 1

\* C10: every run steps through Idle -> Running -> {Succeeded, Failed} -> Idle
\* and executes exactly one of result.emit and error.emit: result.emit if and
\* only if func returned, error.emit if and only if it raised; at most one
\* such notification is queued, exactly one unless the emit call raised.
C10_ExactlyOneOfResultError ==
    /\ [](\A r \in Runs :
            /\ runs[r].att_result + runs[r].att_error <= 1
            /\ Emitted(runs[r]) =>
                  /\ runs[r].att_result = (IF runs[r].outcome = "returned" THEN 1 ELSE 0)
                  /\ runs[r].att_error = (IF runs[r].outcome = "raised" THEN 1 ELSE 0)
                  /\ runs[r].n_result + runs[r].n_error
                        = (IF runs[r].emit_raised THEN 0 ELSE 1)
            /\ ~Emitted(runs[r]) => runs[r].att_result + runs[r].att_error = 0
            /\ runs[r].n_result <= runs[r].att_result
            /\ runs[r].n_error <= runs[r].att_error
            /\ runs[r].got_result <= runs[r].n_result
            /\ runs[r].got_error <= runs[r].n_error)
    /\ [][\A r \in Runs :
            \/ Phase(runs[r]') = Phase(runs[r])
            \/ <<Phase(runs[r]), Phase(runs[r]')>> \in PhaseSteps]_vars

C10_Witness ==
    \E r, q \in Runs :
        /\ runs[r].pc = "exited" /\ runs[r].outcome = "returned"
        /\ runs[r].got_result = 1 /\ runs[r].got_error = 0
        /\ runs[q].pc = "exited" /\ runs[q].outcome = "raised"
        /\ runs[q].got_error = 1 /\ runs[q].got_result = 0

----------------------------------------------------------------------------
(* Properties of result and error delivery *)

\* the runs whose result slot has run
ResultDelivered == {r \in Runs : runs[r].got_result = 1}

\* a run between the click on Run OCR and the end of its completed slot
InFlight(run) == run.pc # "idle" /\ run.got_completed = 0

\* C11: once the result of a run has been delivered the OCR store holds the
\* engine's return value of a delivered run, and every delivery has emitted
\* one text_changed notification carrying that return value.
C11_ResultPublished ==
    /\ ResultDelivered # {} =>
          ocr_store.text \in {runs[r].text : r \in ResultDelivered}
    /\ Len(ocr_store.text_changed) = Cardinality(ResultDelivered)
    /\ \A i \in 1..Len(ocr_store.text_changed) :
          ocr_store.text_changed[i] \in {runs[r].text : r \in ResultDelivered}

\* C12: when run_ocr raises, Worker.run catches the exception and queues one
\* error notification carrying it and no result; the dialog shows the
\* exception's description; no step of the failed run changes the OCR store or
\* the image store; and when the only run clicked so far is no longer in flight
\* the override cursor is gone (overlapping runs are C21's subject).
C12_FailureIsReported ==
    /\ [](\A r \in Runs :
            /\ (runs[r].outcome = "raised" /\ Emitted(runs[r]) /\ ~runs[r].emit_raised)
                  => (runs[r].n_error = 1 /\ runs[r].n_result = 0)
            /\ runs[r].outcome = "raised" => runs[r].exc # "none"
            /\ runs[r].got_error = 1 => runs[r].shown = runs[r].exc
            /\ runs[r].got_error = 0 => runs[r].shown = "none"
            /\ \A i \in 1..Len(events) :
                  (events[i].run = r /\ events[i].kind = "error")
                      => events[i].error = runs[r].exc)
    /\ []((~InFlight(runs[1]) /\ \A r \in Runs \ {1} : runs[r].pc = "idle")
             => cursor = 0)
    /\ [][(\E r \in Runs : runs[r].outcome = "raised" /\ runs[r]' # runs[r])
             => (ocr_store' = ocr_store /\ image_store' = image_store)]_vars

C12_Witness ==
    \E r, q \in Runs :
        /\ runs[r].outcome = "raised" /\ runs[r].exc = "TesseractError"
        /\ runs[r].got_error = 1 /\ runs[r].got_completed = 1
        /\ runs[q].outcome = "returned" /\ runs[q].got_result = 1
        /\ r < q
        /\ cursor = 0

----------------------------------------------------------------------------
(* Properties of the image store and of the handlers' frame *)

\* C13: while no original image has been loaded, a stage change leaves the
\* image store as it is and publishes no edited image.
C13_NoOriginalNoPublish ==
    [][(IsNone(original_cv_img) /\ IsNone(original_cv_img'))
          => (image_store' = image_store /\ notified' = <<>>)]_vars

C13_Witness ==
    /\ IsNone(original_cv_img)
    /\ last = "change"
    /\ edits = 1
    /\ filters.gray.checked /\ filters.bin.checked /\ filters.mor.checked
    /\ image_store = InitStore
    /\ notified = <<>>

\* C14: a recomputation in which a stage raises publishes nothing: the edited
\* slot keeps the value it had and the original is untouched, both for the
\* recomputation run on the current state and for every handled stage change
\* whose recomputation raised.
C14_RaisePublishesNothing ==
    /\ [](LET w == on_params_changed(World) IN
            w.failed => /\ w.store = image_store
                        /\ w.emitted = <<>>
                        /\ w.orig = original_cv_img)
    /\ [][last' = "change_raised"
            => /\ image_store' = image_store
               /\ notified' = <<>>
               /\ original_cv_img' = original_cv_img]_vars

C14_Witness ==
    /\ last = "change_raised"
    /\ ~IsNone(original_cv_img)
    /\ Len(image_store.edited_img.ops) = 2
    /\ IsRaised(ApplyFilters(filters, copy(original_cv_img)))

\* what one user interaction (on a control that is enabled) or one reset()
\* of a widget makes of the current state
WidgetChanges ==
    {GrayscaleSetChecked(World, ~filters.gray.checked),
     BinarySetChecked(World, ~filters.bin.checked),
     InvertSetChecked(World, ~filters.inv.checked),
     GaussianSetChecked(World, ~filters.gau.checked),
     MedianSetChecked(World, ~filters.med.checked),
     MorphSetChecked(World, ~filters.mor.checked),
     GrayscaleReset(World), BinaryReset(World), InvertReset(World),
     GaussianReset(World), MedianReset(World), DilationErosionReset(World)}
    \cup {BinarySetSlider(World, v) :
             v \in {x \in ThresholdInputs : filters.bin.slider_enabled}}
    \cup {GaussianSetK1(World, v) : v \in {x \in 1..MaxK : filters.gau.spin_enabled}}
    \cup {GaussianSetK2(World, v) : v \in {x \in 1..MaxK : filters.gau.spin_enabled}}
    \cup {MedianSetKsize(World, v) : v \in {x \in 1..MaxK : filters.med.spin_enabled}}
    \cup {MorphSetKsize(World, v) : v \in {x \in 1..MaxK : filters.mor.ksize_enabled}}
    \cup {MorphSetIter(World, v) : v \in {x \in 1..MaxIter : filters.mor.iter_enabled}}
    \cup {MorphClickRadio(World, id) :
             id \in {x \in {DilateId, ErodeId} :
                       IF x = DilateId THEN filters.mor.dilate_enabled
                                       ELSE filters.mor.erode_enabled}}

\* C15: whenever a user interaction or a reset() changes the enabled state or
\* a parameter value of a stage (what get_params returns), the widget emits
\* paramsChanged and a recomputation is triggered.
C15_EveryChangeNotifies ==
    \A w \in WidgetChanges :
        AllParams(w.filters) # AllParams(filters) => w.params_changed >= 1

\* C16: in every reachable state each kernel size of the gaussian, median and
\* morphology widgets is a positive odd integer.
C16_KernelSizesOdd ==
    \A k \in {filters.gau.k1, filters.gau.k2, filters.med.ksize, filters.mor.ksize} :
        k >= 1 /\ k % 2 = 1

----------------------------------------------------------------------------
(* ImageStore *)

\* the images a setter is called with
SetterImages ==
    {FileImage(f) : f \in Files} \cup {image_store.img, image_store.edited_img}

\* w2 differs from w in the store and the notifications sent, at most
OnlyStoreTouched(w, w2) ==
    [w2 EXCEPT !.store = w.store, !.emitted = w.emitted] = w

Of(signal, emitted) == SelectSeq(emitted, LAMBDA n : n.signal = signal)

\* the slots of w2 hold what the latest notification of each signal carried
ReadsLatest(w2) ==
    LET ed == Of("editedImageChanged", w2.emitted)
        og == Of("imageChanged", w2.emitted)
    IN  /\ ed # <<>> => get_edited_img(w2.store) = ed[Len(ed)].img
        /\ og # <<>> => /\ get_original_img(w2.store) = og[Len(og)].img
                        /\ get_path(w2.store) = og[Len(og)].path

\* C18: after a setter call the getter returns that call's argument, the call
\* itself sends exactly one notification, which carries the value stored, and
\* after a handler that calls setters several times the getters return what the
\* last of its notifications carried.
C18_ReadsReturnLatest ==
    /\ \A img \in SetterImages :
          /\ LET w2 == set_edited_img(World, img) IN
                /\ get_edited_img(w2.store) = img
                /\ w2.emitted = <<[signal |-> "editedImageChanged", img |-> img,
                                   path |-> 0]>>
          /\ \A path \in Files :
                /\ LET w2 == store_original_img(World, img, path) IN
                      /\ get_original_img(w2.store) = img
                      /\ get_path(w2.store) = path
                      /\ w2.emitted = <<[signal |-> "imageChanged", img |-> img,
                                         path |-> path]>>
                /\ LET w2 == set_original_img(World, img, path) IN
                      /\ get_original_img(w2.store) = img
                      /\ get_path(w2.store) = path
                      /\ Len(Of("imageChanged", w2.emitted)) = 1
                      /\ ReadsLatest(w2)
    /\ \A f \in Files : ReadsLatest(load_image(World, f))
    /\ ReadsLatest(paramsChanged(World))

\* a recomputation has replaced the edited image: the edited slot holds its
\* result, not the image published by the load before it
C18_Witness ==
    /\ last = "change"
    /\ notified = <<"editedImageChanged">>
    /\ get_edited_img(image_store)
         = cv_to_qimage(ApplyFilters(filters, copy(original_cv_img)))
    /\ get_edited_img(image_store) # get_original_img(image_store)
    /\ get_original_img(image_store) = FileImage(get_path(image_store))

----------------------------------------------------------------------------
(* Loading *)

\* C19: choosing or dropping a file that cannot be decoded, or dropping a file
\* whose name has none of the image suffixes, leaves the store's three slots,
\* the original the editor works on and every widget as they were and sends no
\* store notification.
C19_FailedLoadChangesNothing ==
    \A f \in Files :
        /\ isNull(FileImage(f)) =>
              /\ load_image(World, f) = World
              /\ eventFilterDrop(World, f, TRUE) = World
        /\ eventFilterDrop(World, f, FALSE) = World

\* an image is loaded and edited, a file that cannot be decoded exists, and
\* loading it here gives back the store, the widgets and no notification
C19_Witness ==
    /\ ~isNull(image_store.img)
    /\ image_store.edited_img # image_store.img
    /\ AllParams(filters) # AllParams(InitFilters)
    /\ \E f \in Files :
          /\ isNull(FileImage(f))
          /\ load_image(World, f).store = image_store
          /\ load_image(World, f).filters = filters
          /\ load_image(World, f).emitted = <<>>

----------------------------------------------------------------------------
(* Overlapping OCR runs *)

\* no notification of run r is waiting for the interface thread
NonePending(r) == \A i \in 1..Len(events) : events[i].run # r

\* C20: "Run OCR" can be clicked whatever the other runs are doing, the click
\* starts a run of its own and touches no other run, every step belongs to one
\* run, every queued notification carries the return value or exception of the
\* run that sent it, and a run whose notifications have been handled has had
\* its own result or error slot and its own completed slot run once.
C20_RunsDoNotBlock ==
    /\ []((\E r \in Runs : runs[r].pc = "idle") => ENABLED OcrTrigger)
    /\ [](\A i \in 1..Len(events) :
            /\ events[i].kind = "result" => events[i].text = runs[events[i].run].text
            /\ events[i].kind = "error" => events[i].error = runs[events[i].run].exc)
    /\ [](\A r \in Runs :
            (runs[r].pc = "exited" /\ ~runs[r].emit_raised /\ NonePending(r)) =>
                /\ runs[r].got_result = (IF runs[r].outcome = "returned" THEN 1 ELSE 0)
                /\ runs[r].got_error = (IF runs[r].outcome = "raised" THEN 1 ELSE 0)
                /\ runs[r].got_completed = 1)
    /\ [][/\ Cardinality({r \in Runs : runs[r]' # runs[r]}) <= 1
          /\ \A r \in Runs :
                (runs[r].pc = "idle" /\ runs[r]'.pc # "idle") =>
                    /\ runs[r]'.pc = "queued"
                    /\ events' = events
                    /\ cursor' = cursor + 1]_vars

\* the first run is still executing on its pool thread while the second,
\* clicked after it, has delivered its result and its completion
C20_Witness ==
    /\ runs[1].pc = "started"
    /\ runs[2].pc = "exited"
    /\ runs[2].got_result = 1
    /\ runs[2].got_completed = 1
    /\ NonePending(2)

----------------------------------------------------------------------------
(* The override cursor *)

----------------------------------------------------------------------------
(* Publications during a load *)

\* the edited images published while set_original_img(FileImage(f), f) runs
PublishedByLoad(f) ==
    LET ed == Of("editedImageChanged",
                 set_original_img(World, FileImage(f), f).emitted)
    IN  {ed[i].img : i \in 1..Len(ed)}

\* C22: every edited image published by on_original_image_changed(image) is
\* image itself: none is the result of a recomputation on the new original with
\* a stage still enabled.
C22_LoadPublishesOnlyOriginal ==
    \A f \in Files :
        ~isNull(FileImage(f)) =>
            \A img \in PublishedByLoad(f) :
                /\ SameImage(img, FileImage(f))
                /\ img.ops = <<>>

----------------------------------------------------------------------------
(* Disabled stages *)

\* kernel sizes and iteration counts a spin box is set to
KernelInputs == (1..MaxK) \cup {GaussianKDefault, MedianKDefault, MorphKDefault}
IterInputs == (1..MaxIter) \cup {MorphIterDefault}

\* the images a stage is applied to
StageImages ==
    {qimage_to_cv(FileImage(f)) : f \in Files \ {0}}
        \cup {to_gray(qimage_to_cv(FileImage(f))) : f \in Files \ {0}}

\* the event's state after each change of a parameter of a stage whose
\* get_params() says it is not enabled
DisabledParamChanges ==
    (IF BinaryGetParams(filters.bin).enabled THEN {}
     ELSE {BinarySetSlider(World, v) : v \in ThresholdInputs})
    \cup (IF GaussianGetParams(filters.gau).enabled THEN {}
          ELSE {GaussianSetK1(World, v) : v \in KernelInputs}
                 \cup {GaussianSetK2(World, v) : v \in KernelInputs})
    \cup (IF MedianGetParams(filters.med).enabled THEN {}
          ELSE {MedianSetKsize(World, v) : v \in KernelInputs})
    \cup (IF DilationErosionGetParams(filters.mor).enabled THEN {}
          ELSE {MorphSetKsize(World, v) : v \in KernelInputs}
                 \cup {MorphSetIter(World, v) : v \in IterInputs}
                 \cup {MorphClickRadio(World, id) : id \in {DilateId, ErodeId}})

----------------------------------------------------------------------------
(* Threads *)

\* a step of Worker.run, on a pool thread: a Worker that has been handed to
\* the pool moves on
PoolStep == \E r \in Runs : runs[r].pc # "idle" /\ runs[r]'.pc # runs[r].pc

\* a slot of the interface thread runs for the oldest queued notification
SlotStep == events # <<>> /\ events' = Tail(events)

\* C24: no step of a pool thread changes the image store, the original the
\* editor holds, the widgets or the OCR text store; the image store changes
\* only in an event handler of the interface thread, and the OCR text store
\* only in the result slot, which the interface thread runs.
C24_StoresOnInterfaceThread ==
    [][/\ PoolStep => UNCHANGED <<image_store, original_cv_img, filters, ocr_store>>
       /\ image_store' # image_store
             => (~PoolStep /\ UNCHANGED <<runs, events, cursor, ocr_store>>)
       /\ ocr_store' # ocr_store
             => (~PoolStep /\ SlotStep /\ Head(events).kind = "result"
                 /\ ocr_store'.text = Head(events).text)]_vars

\* a result slot has stored a run's text and an image is loaded while another
\* Worker is executing run_ocr on its pool thread
C24_Witness ==
    \E r, q \in Runs :
        /\ runs[r].got_result = 1
        /\ ocr_store.text = runs[r].text
        /\ runs[q].pc = "started"
        /\ ~isNull(image_store.img)
        /\ last = "load"

----------------------------------------------------------------------------
(* Termination of OCR runs *)

\* the result or error slot and the completed slot of a run have run
Completed(run) ==
    /\ run.got_completed = 1
    /\ run.got_result + run.got_error = (IF run.emit_raised THEN 0 ELSE 1)

----------------------------------------------------------------------------
(* Check boxes *)

\* every stage's get_params()["enabled"] equals the state of its check box
EnabledIsChecked(F) ==
    /\ GrayscaleGetParams(F.gray).enabled = F.gray.checked
    /\ BinaryGetParams(F.bin).enabled = F.bin.checked
    /\ InvertGetParams(F.inv).enabled = F.inv.checked
    /\ GaussianGetParams(F.gau).enabled = F.gau.checked
    /\ MedianGetParams(F.med).enabled = F.med.checked
    /\ DilationErosionGetParams(F.mor).enabled = F.mor.checked

\* C26: in every reachable state the enabled flag that get_params and apply
\* use equals the state of the stage's check box, and after reset() one click
\* on the check box enables the stage.
C26_EnabledIsCheckbox ==
    /\ EnabledIsChecked(filters)
    /\ LET w1 == reset_all_filters(World)
           F1 == w1.filters
       IN  /\ GrayscaleGetParams(GrayscaleSetChecked(w1, ~F1.gray.checked).filters.gray).enabled
           /\ BinaryGetParams(BinarySetChecked(w1, ~F1.bin.checked).filters.bin).enabled
           /\ InvertGetParams(InvertSetChecked(w1, ~F1.inv.checked).filters.inv).enabled
           /\ GaussianGetParams(GaussianSetChecked(w1, ~F1.gau.checked).filters.gau).enabled
           /\ MedianGetParams(MedianSetChecked(w1, ~F1.med.checked).filters.med).enabled
           /\ DilationErosionGetParams(
                  MorphSetChecked(w1, ~F1.mor.checked).filters.mor).enabled

----------------------------------------------------------------------------
(* Grayscale and binarize together *)

\* the widgets F with the binarize stage enabled at threshold t and the
\* grayscale check box set to gray
WithGrayBinary(F, gray, t) ==
    [F EXCEPT !.gray.checked = gray, !.bin.checked = TRUE, !.bin.slider = t]

\* the number of grayscale conversions applied to img
GrayCount(img) == Len(SelectSeq(img.ops, LAMBDA o : o.op = "gray"))

\* C27: with grayscale and binarize both enabled the pipeline's output is the
\* output with binarize enabled and grayscale disabled, for every original,
\* threshold and state of the other widgets, and it has been converted to
\* grayscale once.
C27_GrayscaleAppliedOnce ==
    \A f \in Files \ {0}, t \in ThresholdInputs :
        LET I == qimage_to_cv(FileImage(f))
            both == ApplyFilters(WithGrayBinary(filters, TRUE, t), copy(I))
            bin == ApplyFilters(WithGrayBinary(filters, FALSE, t), copy(I))
        IN  /\ both = bin
            /\ ~IsRaised(both) => GrayCount(both) = 1

\* grayscale, binarize and one more stage are enabled and the edited slot
\* holds the pipeline's output, converted to grayscale once
C27_Witness ==
    /\ last = "change"
    /\ filters.gray.checked /\ filters.bin.checked /\ filters.inv.checked
    /\ ~IsNone(original_cv_img)
    /\ get_edited_img(image_store)
         = cv_to_qimage(ApplyFilters([filters EXCEPT !.gray.checked = FALSE],
                                     copy(original_cv_img)))
    /\ GrayCount(get_edited_img(image_store)) = 1

----------------------------------------------------------------------------
(* The OCR text store *)

----------------------------------------------------------------------------
(* Run OCR without an image *)

----------------------------------------------------------------------------
(* The image an OCR run reads *)

\* the images set_edited_img has been called with in a session without stage
\* changes, converted for the engine
PublishedInputs == {qimage_to_cv(FileImage(f)) : f \in Files \ {0}}

\* C30: the image a run hands to the engine is the whole value the edited
\* slot holds at the instant run_ocr reads it, between the click and the
\* delivery of the run's result: an image that was published, never a mixture
\* of two, and the value returned for it does not change afterwards, whatever
\* the interface thread publishes while the run is in flight.
C30_ReadsOneCompleteImage ==
    /\ [](\A r \in Runs :
            runs[r].outcome = "returned" =>
                \E img \in PublishedInputs : runs[r].text = OcrText(img))
    /\ [][\A r \in Runs :
            /\ (runs[r].pc = "started" /\ runs[r]'.pc = "returned") =>
                  /\ runs[r]'.text
                       = OcrText(qimage_to_cv(get_edited_img(image_store)))
                  /\ runs[r].got_result = 0 /\ runs[r].n_result = 0
            /\ runs[r].outcome = "returned" => runs[r]'.text = runs[r].text]_vars

\* a run was clicked with one image in the edited slot, another image was
\* published while it was in flight, and the run read and delivered the
\* result for the second image
C30_Witness ==
    \E r \in Runs :
        /\ ~isNull(runs[r].trig)
        /\ runs[r].outcome = "returned"
        /\ runs[r].text # OcrText(qimage_to_cv(runs[r].trig))
        /\ runs[r].text \in {OcrText(img) : img \in PublishedInputs}
        /\ runs[r].got_result = 1

============================================================================
